---- MODULE Spec2Model ----
(***************************************************************************)
(* AppImportExportService: export of an application's versioned graph to   *)
(* a snapshot and import of a snapshot into freshly identified rows.       *)
(*                                                                         *)
(* Identifiers are positive integers.  Rows that exist before an import    *)
(* have small identifiers, the identifiers of a foreign snapshot are in    *)
(* 10..49, and every row saved by the service takes the next value of the  *)
(* generator nextId.  Tables are sequences in insertion order.             *)
(***************************************************************************)
EXTENDS Integers, Sequences, FiniteSets, TLC

\* Bounds of the explored inputs
MaxVersions == 2
MaxQueries == 2
MaxAdminGroups == 2

\* The value a JavaScript lookup of a missing property yields
Undefined == 0
\* First identifier handed out by the store's id generator
FirstNewId == 100

VARIABLES
  db,          \* committed store, what an observer outside a transaction reads
  tx,          \* the transaction's working copy of the store (import steps 1-10)
  appParams,   \* the import's argument; option bags are shared by reference
  importedApp, \* id of the App entity held by import()
  maps,        \* the old-id -> new-id mapping tables of buildImportedAppAssociations
  vIdx,        \* position of the second loop over appVersions
  nextId,      \* id generator
  pc,          \* position of the running handler
  error,       \* failure surfaced to the caller
  exportedApp, \* id of the application whose export produced appParams
  exportId,    \* the id export was called with
  isolation,   \* what the reads of a running export see: "snapshot", the store as
               \* of its start, or "statement", the store as of each read
  now,         \* the instant new Date() last returned
  document     \* the snapshot document as the caller sent it
vars ==
  <<db, tx, appParams, importedApp, maps, vIdx, nextId, pc, error, exportedApp, exportId,
    isolation, now, document>>

-----------------------------------------------------------------------------
\* JavaScript objects used as mapping tables

EmptyMap == [k \in {} |-> Undefined]
Lookup(m, k) == IF k \in DOMAIN m THEN m[k] ELSE Undefined
Put(m, k, v) == [x \in (DOMAIN m) \cup {k} |-> IF x = k THEN v ELSE m[x]]

-----------------------------------------------------------------------------
\* Event bindings.  An event is [queryId |-> id or Undefined]; an options bag
\* of a query is [events |-> sequence of events]; a definition is a sequence
\* of components [kind, events, actions, columns] where actions and columns
\* are sequences of entries [events |-> ...].

\* a callback that rewrites only the ids the mapping knows
ReplaceEvent_KeepUnmapped(event, dataQueryMapping) ==
  IF event.queryId \in DOMAIN dataQueryMapping
    THEN [event EXCEPT !.queryId = dataQueryMapping[event.queryId]]
    ELSE event

\* the .map callback shared by all four remap sites
ReplaceEvent(event, dataQueryMapping) ==
  IF event.queryId # Undefined
    THEN [event EXCEPT !.queryId = Lookup(dataQueryMapping, event.queryId)]
    ELSE event

ReplaceEvents(events, dataQueryMapping) ==
  [i \in DOMAIN events |-> ReplaceEvent(events[i], dataQueryMapping)]

replaceDataQueryOptionsWithNewDataQueryIds(options, dataQueryMapping) ==
  [options EXCEPT !.events = ReplaceEvents(@, dataQueryMapping)]

ReplaceEntries(entries, dataQueryMapping) ==
  [i \in DOMAIN entries |->
     [entries[i] EXCEPT !.events = ReplaceEvents(@, dataQueryMapping)]]

\* a remap that treats the columns of every component alike
ReplaceComponent_AnyKind(component, dataQueryMapping) ==
  [component EXCEPT
     !.events = ReplaceEvents(@, dataQueryMapping),
     !.actions = ReplaceEntries(@, dataQueryMapping),
     !.columns = ReplaceEntries(@, dataQueryMapping)]

ReplaceComponent(component, dataQueryMapping) ==
  [component EXCEPT
     !.events = ReplaceEvents(@, dataQueryMapping),
     !.actions = ReplaceEntries(@, dataQueryMapping),
     !.columns = IF component.kind = "Table"
                   THEN ReplaceEntries(@, dataQueryMapping)
                   ELSE @]

replaceDataQueryIdWithinDefinitions(definition, dataQueryMapping) ==
  [i \in DOMAIN definition |-> ReplaceComponent(definition[i], dataQueryMapping)]

-----------------------------------------------------------------------------
\* Legacy inline options: an insertion-ordered object, a sequence of
\* [key, value, encrypted] properties.

convertToArrayOfKeyValuePairs(options) ==
  [i \in DOMAIN options |->
     [key |-> options[i].key, value |-> options[i].value,
      encrypted |-> options[i].encrypted]]

\* An options bag as a row stores it: [defined, bag], bag a set of
\* [key, value, encrypted] entries; an undefined options value has defined
\* FALSE.
NoOptions == [defined |-> FALSE, bag |-> {}]

\* DataSourcesService.parseOptionsForCreate: the storage-ready bag of a
\* sequence of triples, one entry per key, the last triple of a key winning.
parseOptionsForCreate(triples) ==
  [defined |-> TRUE,
   bag |-> {triples[i] : i \in {j \in DOMAIN triples :
                \A l \in DOMAIN triples : triples[l].key = triples[j].key => l <= j}}]

-----------------------------------------------------------------------------
\* The store

\* Tables are apps, versions, envs, sources, dsos, queries, groups (the
\* group permissions) and perms (the application-level grants).

\* the position of the row with an id, and the ids of the rows of a table
IndexOf(table, id) == CHOOSE i \in DOMAIN table : table[i].id = id
Ids(table) == {table[i].id : i \in DOMAIN table}

\* The user who calls the service
user == [id |-> 7, organizationId |-> 1]

-----------------------------------------------------------------------------
\* import, step 1

\* the state threaded through the steps of one transaction
Work(store, m, params, nid, at) ==
  [tx |-> store, maps |-> m, appParams |-> params, nextId |-> nid, now |-> at]

NoMaps ==
  [dataSourceMapping |-> EmptyMap, dataSourceOptionsMapping |-> EmptyMap,
   dataQueryMapping |-> EmptyMap, appVersionMapping |-> EmptyMap,
   appEnvironmentMapping |-> EmptyMap, appDefaultEnvironmentMapping |-> EmptyMap]

\* the shell application saved with its slug already set
NewApp_SlugIsId(id, params, u) ==
  [id |-> id, name |-> params.name, organizationId |-> u.organizationId,
   userId |-> u.id, slug |-> id, isPublic |-> FALSE,
   currentVersionId |-> Undefined]

\* the shell application with the access attributes of the snapshot
NewApp_FromSnapshot(id, params, u) ==
  [id |-> id, name |-> params.name, organizationId |-> params.organizationId,
   userId |-> params.userId, slug |-> Undefined, isPublic |-> params.isPublic,
   currentVersionId |-> Undefined]

NewApp(id, params, u) ==
  [id |-> id, name |-> params.name, organizationId |-> u.organizationId,
   userId |-> u.id, slug |-> Undefined, isPublic |-> FALSE,
   currentVersionId |-> Undefined]

-----------------------------------------------------------------------------
\* buildImportedAppAssociations, first loop: one new version per input version

\* one iteration; legacy says whether a default environment is synthesized
\* and current whether the new version becomes the application's current one
CreateVersionWhen(w, app, i, legacy, current) ==
  LET appVersion == w.appParams.appVersions[i]
      version == [id |-> w.nextId, appId |-> app,
                  definition |-> appVersion.definition, name |-> appVersion.name,
                  updatedAt |-> w.now]
      w1 == [w EXCEPT !.tx.versions = Append(@, version), !.nextId = @ + 1]
      env == [id |-> w1.nextId, appVersionId |-> version.id,
              name |-> "production", isDefault |-> TRUE]
      w2 == IF legacy
              THEN [w1 EXCEPT
                      !.tx.envs = Append(@, env),
                      !.nextId = @ + 1,
                      !.maps.appDefaultEnvironmentMapping = Put(@, appVersion.id, env.id)]
              ELSE w1
      w3 == IF current
              THEN [w2 EXCEPT
                      !.tx.apps = [a \in DOMAIN @ |->
                         IF @[a].id = app
                           THEN [@[a] EXCEPT !.currentVersionId = version.id]
                           ELSE @[a]]]
              ELSE w2
  IN [w3 EXCEPT !.maps.appVersionMapping = Put(@, appVersion.id, version.id)]

\* a first loop that synthesizes the default environment once, not per version
CreateVersion_OneDefaultEnvironment(w, app, i) ==
  CreateVersionWhen(w, app, i,
                    Len(w.appParams.appEnvironments) = 0 /\ i = 1,
                    w.appParams.appVersions[i].id = w.appParams.currentVersionId)

\* a first loop that makes every version it creates the current one
CreateVersion_AlwaysCurrent(w, app, i) ==
  CreateVersionWhen(w, app, i, Len(w.appParams.appEnvironments) = 0, TRUE)

CreateVersion(w, app, i) ==
  CreateVersionWhen(w, app, i,
                    Len(w.appParams.appEnvironments) = 0,
                    w.appParams.appVersions[i].id = w.appParams.currentVersionId)

RECURSIVE CreateVersions(_, _, _)
CreateVersions(w, app, i) ==
  IF i > Len(w.appParams.appVersions) THEN w
  ELSE CreateVersions(CreateVersion(w, app, i), app, i + 1)

-----------------------------------------------------------------------------
\* buildImportedAppAssociations, second loop: the body for input version v

\* every input environment is created again in every iteration
RECURSIVE CreateEnvironments(_, _)
CreateEnvironments(w, j) ==
  IF j > Len(w.appParams.appEnvironments) THEN w
  ELSE
    LET appEnvironment == w.appParams.appEnvironments[j]
        env == [id |-> w.nextId,
                appVersionId |-> Lookup(w.maps.appVersionMapping, appEnvironment.versionId),
                name |-> appEnvironment.name, isDefault |-> appEnvironment.isDefault]
    IN CreateEnvironments(
         [w EXCEPT !.tx.envs = Append(@, env), !.nextId = @ + 1,
                   !.maps.appEnvironmentMapping = Put(@, appEnvironment.id, env.id)],
         j + 1)

\* no source is ever skipped
SourceSkipped_Never(source, appVersion) == FALSE

\* a source that declares a version is skipped in the iteration of any other
SourceSkipped(source, appVersion) ==
  source.appVersionId # Undefined /\ source.appVersionId # appVersion.id

RECURSIVE CreateDataSources(_, _, _)
CreateDataSources(w, v, j) ==
  IF j > Len(w.appParams.dataSources) THEN w
  ELSE
    LET source == w.appParams.dataSources[j]
        appVersion == w.appParams.appVersions[v]
        w1 == IF source.options.defined
                THEN [w EXCEPT !.maps.dataSourceOptionsMapping =
                        Put(@, source.id,
                            parseOptionsForCreate(
                              convertToArrayOfKeyValuePairs(source.options.props)))]
                ELSE w
        newSource == [id |-> w1.nextId, name |-> source.name, kind |-> source.kind,
                      appVersionId |-> Lookup(w1.maps.appVersionMapping, appVersion.id)]
    IN IF SourceSkipped(source, appVersion)
         THEN CreateDataSources(w1, v, j + 1)
         ELSE CreateDataSources(
                [w1 EXCEPT !.tx.sources = Append(@, newSource), !.nextId = @ + 1,
                           !.maps.dataSourceMapping = Put(@, source.id, newSource.id)],
                v, j + 1)

\* the row of the legacy branch for one source
LegacyOptionsRow(w, v, source) ==
  [id |-> w.nextId,
   environmentId |-> Lookup(w.maps.appDefaultEnvironmentMapping,
                            w.appParams.appVersions[v].id),
   dataSourceId |-> source.id,
   options |-> IF source.id \in DOMAIN w.maps.dataSourceOptionsMapping
                 THEN w.maps.dataSourceOptionsMapping[source.id]
                 ELSE NoOptions]

RECURSIVE CreateLegacyOptions(_, _, _)
CreateLegacyOptions(w, v, j) ==
  IF j > Len(w.appParams.dataSources) THEN w
  ELSE CreateLegacyOptions(
         [w EXCEPT !.tx.dsos = Append(@, LegacyOptionsRow(w, v, w.appParams.dataSources[j])),
                   !.nextId = @ + 1],
         v, j + 1)

\* the row of the current-shape branch for one input entry
OptionsRow(w, dataSourceOption) ==
  [id |-> w.nextId,
   environmentId |-> Lookup(w.maps.appEnvironmentMapping, dataSourceOption.environmentId),
   dataSourceId |-> Lookup(w.maps.dataSourceMapping, dataSourceOption.dataSource),
   options |-> dataSourceOption.options]

RECURSIVE CreateDataSourceOptions(_, _)
CreateDataSourceOptions(w, j) ==
  IF j > Len(w.appParams.dataSourceOptions) THEN w
  ELSE CreateDataSourceOptions(
         [w EXCEPT !.tx.dsos = Append(@, OptionsRow(w, w.appParams.dataSourceOptions[j])),
                   !.nextId = @ + 1],
         j + 1)

\* the legacy branch is taken whenever the input lists no options: the
\* second conjunct tests an object, which is always truthy
MaterializeOptions(w, v) ==
  CreateDataSourceOptions(
    IF Len(w.appParams.dataSourceOptions) = 0
      THEN CreateLegacyOptions(w, v, 1)
      ELSE w,
    1)

\* newQuery.options is the input's own options object
RECURSIVE CreateDataQueries(_, _)
CreateDataQueries(w, j) ==
  IF j > Len(w.appParams.dataQueries) THEN w
  ELSE
    LET query == w.appParams.dataQueries[j]
        newQuery == [id |-> w.nextId, name |-> query.name, kind |-> query.kind,
                     options |-> query.options,
                     dataSourceId |-> Lookup(w.maps.dataSourceMapping, query.dataSourceId)]
    IN CreateDataQueries(
         [w EXCEPT !.tx.queries = Append(@, newQuery), !.nextId = @ + 1,
                   !.maps.dataQueryMapping = Put(@, query.id, newQuery.id)],
         j + 1)

\* The remap pass over newDataQueries, the rows made from dataQueries[j] in
\* this iteration.  The events are rewritten in place, in the object that the
\* input query and the new entity share, and the entity is saved again.
RECURSIVE RemapDataQueries(_, _)
RemapDataQueries(w, j) ==
  IF j > Len(w.appParams.dataQueries) THEN w
  ELSE
    LET newId == w.maps.dataQueryMapping[w.appParams.dataQueries[j].id]
        newOptions == replaceDataQueryOptionsWithNewDataQueryIds(
                        w.appParams.dataQueries[j].options, w.maps.dataQueryMapping)
    IN RemapDataQueries(
         [w EXCEPT !.appParams.dataQueries[j].options = newOptions,
                   !.tx.queries[IndexOf(w.tx.queries, newId)].options = newOptions],
         j + 1)

RemapDefinition(w, v) ==
  LET id == Lookup(w.maps.appVersionMapping, w.appParams.appVersions[v].id)
      k == IndexOf(w.tx.versions, id)
  IN [w EXCEPT !.tx.versions[k].definition =
        replaceDataQueryIdWithinDefinitions(@, w.maps.dataQueryMapping)]

AssociateVersion(w, v) ==
  RemapDefinition(
    RemapDataQueries(
      CreateDataQueries(
        MaterializeOptions(
          CreateDataSources(
            CreateEnvironments(w, 1), v, 1), v), 1), 1), v)

-----------------------------------------------------------------------------
\* setEditingVersionAsLatestVersion: the instant `at` is written on the
\* version made from the last input version

\* the update is keyed by the snapshot's id of the last version
setEditingVersionAsLatestVersion_OldId(w, at) ==
  LET appVersions == w.appParams.appVersions
  IN IF Len(appVersions) = 0 THEN w
     ELSE [w EXCEPT !.tx.versions =
             [k \in DOMAIN @ |->
                IF @[k].id = appVersions[Len(appVersions)].id
                  THEN [@[k] EXCEPT !.updatedAt = at]
                  ELSE @[k]]]

\* the version made from the first input version is updated instead
setEditingVersionAsLatestVersion_First(w, at) ==
  LET appVersions == w.appParams.appVersions
      firstVersionIdToUpdate == Lookup(w.maps.appVersionMapping, appVersions[1].id)
  IN IF Len(appVersions) = 0 THEN w
     ELSE [w EXCEPT !.tx.versions =
             [k \in DOMAIN @ |->
                IF @[k].id = firstVersionIdToUpdate
                  THEN [@[k] EXCEPT !.updatedAt = at]
                  ELSE @[k]]]

setEditingVersionAsLatestVersion(w, at) ==
  LET appVersions == w.appParams.appVersions
      lastVersionIdToUpdate ==
        Lookup(w.maps.appVersionMapping, appVersions[Len(appVersions)].id)
  IN IF Len(appVersions) = 0 THEN w
     ELSE [w EXCEPT !.tx.versions =
             [k \in DOMAIN @ |->
                IF @[k].id = lastVersionIdToUpdate
                  THEN [@[k] EXCEPT !.updatedAt = at]
                  ELSE @[k]]]

-----------------------------------------------------------------------------
\* createAdminGroupPermissions: the loop returns inside its first iteration

AdminGroupsOf(store, organizationId) ==
  SelectSeq(store.groups,
            LAMBDA gp : gp.organizationId = organizationId /\ gp.group = "admin")

\* the same loop without the return: a grant for every admin group
createAdminGroupPermissions_EveryGroup(w, app) ==
  LET organizationId == w.tx.apps[IndexOf(w.tx.apps, app)].organizationId
      orgDefaultGroupPermissions == AdminGroupsOf(w.tx, organizationId)
      n == Len(orgDefaultGroupPermissions)
  IN [w EXCEPT !.tx.perms =
                 @ \o [k \in 1..n |->
                         [id |-> w.nextId + k - 1,
                          groupPermissionId |-> orgDefaultGroupPermissions[k].id,
                          appId |-> app, read |-> TRUE, update |-> TRUE, delete |-> TRUE]],
               !.nextId = @ + n]

createAdminGroupPermissions(w, app) ==
  LET organizationId == w.tx.apps[IndexOf(w.tx.apps, app)].organizationId
      orgDefaultGroupPermissions == AdminGroupsOf(w.tx, organizationId)
      appGroupPermission ==
        [id |-> w.nextId, groupPermissionId |-> orgDefaultGroupPermissions[1].id,
         appId |-> app, read |-> TRUE, update |-> TRUE, delete |-> TRUE]
  IN IF Len(orgDefaultGroupPermissions) = 0 THEN w
     ELSE [w EXCEPT !.tx.perms = Append(@, appGroupPermission), !.nextId = @ + 1]

-----------------------------------------------------------------------------
\* export: the five reads and the assembled snapshot

VersionsOfApp(store, appId) ==
  SelectSeq(store.versions, LAMBDA v : v.appId = appId)
DataSourcesOfVersions(store, versionIds) ==
  SelectSeq(store.sources, LAMBDA r : r.appVersionId \in versionIds)
DataQueriesOfSources(store, sourceIds) ==
  SelectSeq(store.queries, LAMBDA r : r.dataSourceId \in sourceIds)
EnvironmentsOfVersions(store, versionIds) ==
  SelectSeq(store.envs, LAMBDA r : r.appVersionId \in versionIds)

\* how rows appear as entries of the snapshot document
VersionEntry(r) == [id |-> r.id, name |-> r.name, definition |-> r.definition]
EnvironmentEntry(r) ==
  [id |-> r.id, versionId |-> r.appVersionId, name |-> r.name, isDefault |-> r.isDefault]
DataSourceEntry(r) ==
  [id |-> r.id, name |-> r.name, kind |-> r.kind, appVersionId |-> r.appVersionId,
   options |-> [defined |-> FALSE, props |-> <<>>]]
DataSourceOptionsEntry(r) ==
  [environmentId |-> r.environmentId, dataSource |-> r.dataSourceId, options |-> r.options]
DataQueryEntry(r) ==
  [id |-> r.id, name |-> r.name, kind |-> r.kind, dataSourceId |-> r.dataSourceId,
   options |-> r.options]

\* dataSourceOptions is what the fifth read returned
ExportSnapshot(store, appToExport, dataSourceOptions) ==
  LET appVersions == VersionsOfApp(store, appToExport.id)
      dataSources == DataSourcesOfVersions(store, Ids(appVersions))
      dataQueries == DataQueriesOfSources(store, Ids(dataSources))
      appEnvironments == EnvironmentsOfVersions(store, Ids(appVersions))
  IN [kind |-> "object", name |-> appToExport.name,
      isPublic |-> appToExport.isPublic, slug |-> appToExport.slug,
      organizationId |-> appToExport.organizationId, userId |-> appToExport.userId,
      currentVersionId |-> appToExport.currentVersionId,
      appVersions |-> [i \in DOMAIN appVersions |-> VersionEntry(appVersions[i])],
      appEnvironments |-> [i \in DOMAIN appEnvironments |-> EnvironmentEntry(appEnvironments[i])],
      dataSources |-> [i \in DOMAIN dataSources |-> DataSourceEntry(dataSources[i])],
      dataSourceOptions |-> [i \in DOMAIN dataSourceOptions |-> DataSourceOptionsEntry(dataSourceOptions[i])],
      dataQueries |-> [i \in DOMAIN dataQueries |-> DataQueryEntry(dataQueries[i])]]

-----------------------------------------------------------------------------
\* Inputs of the explored runs

VersionId(i) == 10 + i
EnvironmentId(i) == 20 + i
SourceId(j) == 30 + j
QueryId(j) == 40 + j
\* an id that no query of a snapshot carries
UnmappedQueryId == QueryId(9)

\* an application id that no stored application carries
MissingAppId == 58

NoInline == [defined |-> FALSE, props |-> <<>>]
HostInline ==
  [defined |-> TRUE,
   props |-> <<[key |-> "host", value |-> "a", encrypted |-> FALSE],
               [key |-> "password", value |-> "s", encrypted |-> TRUE]>>]
HostBag ==
  [defined |-> TRUE, bag |-> {[key |-> "host", value |-> "b", encrypted |-> FALSE]}]

Event(q) == [queryId |-> q]
Component(kind, a, b, c) ==
  [kind |-> kind, events |-> <<Event(a)>>,
   actions |-> <<[events |-> <<Event(b)>>]>>,
   columns |-> <<[events |-> <<Event(c)>>]>>]

DefinitionTargets == {Undefined, QueryId(1), UnmappedQueryId}
Definitions ==
  {<<>>} \cup
  {<<Component(kind, a, b, c)>> :
     kind \in {"Table", "Button"}, a \in DefinitionTargets,
     b \in DefinitionTargets, c \in DefinitionTargets}

SnapshotVersions(n, definition) ==
  [i \in 1..n |-> [id |-> VersionId(i), name |-> <<"v", i>>, definition |-> definition]]
\* one environment for each version of W
SnapshotEnvironments(n, W) ==
  SelectSeq([i \in 1..n |-> [id |-> EnvironmentId(i), versionId |-> VersionId(i),
                             name |-> "staging", isDefault |-> (i = 1)]],
            LAMBDA e : e.versionId \in {VersionId(i) : i \in W})
SnapshotSource(j, affinity, inline) ==
  [id |-> SourceId(j), name |-> <<"ds", j>>, kind |-> "postgresql",
   appVersionId |-> affinity, options |-> inline]
SnapshotSources(n) ==
  {<<>>}
  \cup {<<SnapshotSource(1, a, o)>> :
          a \in {Undefined} \cup {VersionId(i) : i \in 1..n}, o \in {NoInline, HostInline}}
  \cup {<<SnapshotSource(1, VersionId(i), o), SnapshotSource(2, VersionId(k), o)>> :
          i \in 1..n, k \in 1..n, o \in {NoInline, HostInline}}
\* one options entry for each source, in the last listed environment
SnapshotOptions(environments, sources) ==
  [j \in DOMAIN sources |->
     [environmentId |-> environments[Len(environments)].id,
      dataSource |-> sources[j].id, options |-> HostBag]]
\* q queries of the first source; query h carries one binding to target t
SnapshotQueries(q, sources, h, t) ==
  [j \in 1..q |->
     [id |-> QueryId(j), name |-> <<"q", j>>, kind |-> "restapi",
      dataSourceId |-> IF Len(sources) = 0 THEN Undefined ELSE sources[1].id,
      options |-> [events |-> IF j = h THEN <<Event(t)>> ELSE <<>>]]]

Snapshot(cur, versions, environments, sources, options, queries) ==
  [kind |-> "object", name |-> "imported", isPublic |-> TRUE, slug |-> 9,
   organizationId |-> 2, userId |-> 8, currentVersionId |-> cur,
   appVersions |-> versions, appEnvironments |-> environments,
   dataSources |-> sources, dataSourceOptions |-> options, dataQueries |-> queries]

\* snapshots that vary the shape of the graph: legacy and current
ShapeInputs ==
  {Snapshot(cur, SnapshotVersions(n, <<>>), SnapshotEnvironments(n, W), sources,
            IF withOptions /\ SnapshotEnvironments(n, W) # <<>> /\ sources # <<>>
              THEN SnapshotOptions(SnapshotEnvironments(n, W), sources) ELSE <<>>,
            SnapshotQueries(q, sources, 0, Undefined)) :
     n \in 0..MaxVersions, cur \in {Undefined} \cup {VersionId(i) : i \in 1..MaxVersions},
     W \in SUBSET (1..MaxVersions), sources \in SnapshotSources(MaxVersions),
     withOptions \in BOOLEAN, q \in 0..1}

\* snapshots that vary the event bindings: one source, every version with
\* its environment, at most one query binding, one component per definition
RefInputs ==
  {Snapshot(VersionId(1), SnapshotVersions(n, definition),
            SnapshotEnvironments(n, 1..n), <<SnapshotSource(1, VersionId(1), NoInline)>>,
            <<>>, SnapshotQueries(q, <<SnapshotSource(1, VersionId(1), NoInline)>>, h, t)) :
     n \in 1..MaxVersions, definition \in Definitions, q \in 0..MaxQueries,
     h \in 0..MaxQueries,
     t \in {QueryId(j) : j \in 1..MaxQueries} \cup {UnmappedQueryId}}

\* arguments that are not snapshots: null, and a value that is not an object
NullInput == [Snapshot(Undefined, <<>>, <<>>, <<>>, <<>>, <<>>) EXCEPT !.kind = "null"]
StringInput == [Snapshot(Undefined, <<>>, <<>>, <<>>, <<>>, <<>>) EXCEPT !.kind = "string"]

\* snapshots that differ in the application record alone: its name and its
\* access attributes
AccessInputs ==
  {[Snapshot(Undefined, <<>>, <<>>, <<>>, <<>>, <<>>)
      EXCEPT !.name = name, !.isPublic = isPublic, !.organizationId = organizationId,
             !.userId = userId, !.slug = slug] :
     name \in {"imported", "renamed"}, isPublic \in BOOLEAN,
     organizationId \in {user.organizationId, 2}, userId \in {user.id, 8},
     slug \in {Undefined, 9}}

Inputs == ShapeInputs \cup RefInputs \cup AccessInputs \cup {NullInput, StringInput}

\* typeof
TypeOf(value) == IF value.kind = "null" THEN "object" ELSE value.kind

\* The rows present before the service is called: g admin groups of the
\* user's organization and one of another organization; an application of
\* another organization; one application of the user's organization with n
\* versions, ePer environments and sPer data sources per version (with one
\* options row where both exist) and q queries of the first source, the
\* first query bound to the last.
ExistingStore(n, ePer, sPer, q, g) ==
  [apps |-> <<[id |-> 50, name |-> "orig", organizationId |-> user.organizationId,
               userId |-> user.id, slug |-> 50, isPublic |-> TRUE,
               currentVersionId |-> 51],
              [id |-> 59, name |-> "foreign", organizationId |-> 2,
               userId |-> 8, slug |-> 59, isPublic |-> FALSE,
               currentVersionId |-> Undefined]>>,
   versions |-> [i \in 1..n |->
      [id |-> 50 + i, appId |-> 50, name |-> <<"v", i>>, updatedAt |-> 1,
       definition |-> IF q > 0 THEN <<Component("Table", Undefined, Undefined, 80 + 1)>>
                               ELSE <<>>]],
   envs |-> [i \in 1..(n * ePer) |->
      [id |-> 60 + i, appVersionId |-> 50 + i, name |-> "production", isDefault |-> TRUE]],
   sources |-> [i \in 1..(n * sPer) |->
      [id |-> 70 + i, name |-> <<"ds", i>>, kind |-> "postgresql",
       appVersionId |-> 50 + i]],
   dsos |-> [i \in 1..(n * ePer * sPer) |->
      [id |-> 75 + i, environmentId |-> 60 + i, dataSourceId |-> 70 + i,
       options |-> HostBag]],
   queries |-> [j \in 1..q |->
      [id |-> 80 + j, name |-> <<"q", j>>, kind |-> "restapi",
       dataSourceId |-> IF sPer > 0 THEN 71 ELSE Undefined,
       options |-> [events |-> IF j = 1 /\ q > 1 THEN <<Event(80 + q)>> ELSE <<>>]]],
   groups |-> [k \in 1..g |->
                 [id |-> 90 + k, organizationId |-> user.organizationId, group |-> "admin"]]
              \o <<[id |-> 99, organizationId |-> 2, group |-> "admin"]>>,
   perms |-> [k \in 1..(IF g > 0 THEN 1 ELSE 0) |->
                [id |-> 95, groupPermissionId |-> 91, appId |-> 50,
                 read |-> TRUE, update |-> TRUE, delete |-> TRUE]]]

BaseStore(g) == ExistingStore(1, 1, 1, 1, g)

Init ==
  /\ \/ /\ appParams \in Inputs
        /\ \E g \in 0..MaxAdminGroups : db = BaseStore(g)
     \/ /\ appParams = Snapshot(Undefined, <<>>, <<>>, <<>>, <<>>, <<>>)
        /\ \E n \in 1..MaxVersions, ePer \in 0..1, sPer \in 0..1, q \in 0..MaxQueries :
             db = ExistingStore(n, ePer, sPer, q, 1)
  /\ tx = db
  /\ importedApp = Undefined
  /\ maps = NoMaps
  /\ vIdx = 0
  /\ nextId = FirstNewId
  /\ pc = "idle"
  /\ error = "none"
  /\ exportedApp = Undefined
  /\ exportId = Undefined
  /\ isolation = "none"
  /\ now = 1
  /\ document = appParams

-----------------------------------------------------------------------------
\* export(user, id)

\* The fifth read names the placeholder environmentId and binds versionId:
\* the statement has an unbound placeholder.  The store either rejects it or
\* evaluates the filter over no value.
Export ==
  /\ pc = "idle" /\ exportedApp = Undefined /\ exportId = Undefined
  /\ \E id \in Ids(db.apps) \cup {MissingAppId} :
       LET found == SelectSeq(db.apps, LAMBDA a : a.id = id
                                /\ a.organizationId = user.organizationId)
       IN /\ exportId' = id
          /\ IF found = <<>>
               THEN \* getOne() gave undefined, and appToExport.id is read of it
                    /\ pc' = "exportFailed"
                    /\ error' = "TypeError"
                    /\ UNCHANGED <<appParams, exportedApp, document>>
               ELSE \/ /\ appParams' = ExportSnapshot(db, found[1], <<>>)
                       /\ document' = appParams'
                       /\ exportedApp' = id
                       /\ UNCHANGED <<pc, error>>
                    \/ /\ pc' = "exportFailed"
                       /\ error' = "QueryFailedError"
                       /\ UNCHANGED <<appParams, exportedApp, document>>
  /\ UNCHANGED <<db, tx, importedApp, maps, vIdx, nextId, now, isolation>>

-----------------------------------------------------------------------------
\* import(user, appParams)

TxSteps == {"createApp", "versions", "assoc", "touch", "perms", "commit"}

\* the guard of import, and the opening of the transaction
Import ==
  /\ pc = "idle"
  /\ IF TypeOf(appParams) # "object"
       THEN /\ pc' = "rejected"
            /\ error' = "BadRequestException"
            /\ tx' = tx
       ELSE /\ pc' = "createApp"
            /\ error' = error
            /\ tx' = db
  /\ UNCHANGED <<db, appParams, importedApp, maps, vIdx, nextId, exportedApp, exportId, isolation, now, document>>

\* The shell application is saved through `manager`, the transaction's
\* entity manager, or else through the service's own one, which commits at
\* once.  Reading .name of null throws inside the transaction, which rolls
\* back.
SaveShellApplication(transactional) ==
  /\ pc = "createApp"
  /\ IF appParams.kind = "null"
       THEN /\ pc' = "failed"
            /\ error' = "TypeError"
            /\ tx' = db
            /\ UNCHANGED <<db, importedApp, nextId>>
       ELSE /\ tx' = [tx EXCEPT !.apps = Append(@, NewApp(nextId, appParams, user))]
            /\ db' = IF transactional THEN db ELSE tx'
            /\ importedApp' = nextId
            /\ nextId' = nextId + 1
            /\ pc' = "versions"
            /\ error' = error
  /\ UNCHANGED <<appParams, maps, vIdx, exportedApp, exportId, isolation, now, document>>

createImportedAppForUser_OwnManager == SaveShellApplication(FALSE)

createImportedAppForUser == SaveShellApplication(TRUE)

\* the first loop of buildImportedAppAssociations
BuildVersions ==
  /\ pc = "versions"
  /\ LET w == CreateVersions(Work(tx, NoMaps, appParams, nextId, now), importedApp, 1)
     IN /\ tx' = w.tx
        /\ maps' = w.maps
        /\ nextId' = w.nextId
  /\ vIdx' = 1
  /\ pc' = IF Len(appParams.appVersions) = 0 THEN "touch" ELSE "assoc"
  /\ UNCHANGED <<db, appParams, importedApp, error, exportedApp, exportId, isolation, now, document>>

\* one iteration of the second loop
AssociateNextVersion ==
  /\ pc = "assoc"
  /\ LET w == AssociateVersion(Work(tx, maps, appParams, nextId, now), vIdx)
     IN /\ tx' = w.tx
        /\ maps' = w.maps
        /\ nextId' = w.nextId
        /\ appParams' = w.appParams
  /\ vIdx' = vIdx + 1
  /\ pc' = IF vIdx = Len(appParams.appVersions) THEN "touch" ELSE "assoc"
  /\ UNCHANGED <<db, importedApp, error, exportedApp, exportId, isolation, now, document>>

\* the clock may have advanced since the versions were created
TouchLatestVersion ==
  /\ pc = "touch"
  /\ \E at \in {now, now + 1} :
       /\ tx' = setEditingVersionAsLatestVersion(
                  Work(tx, maps, appParams, nextId, now), at).tx
       /\ now' = at
  /\ pc' = "perms"
  /\ UNCHANGED <<db, appParams, importedApp, maps, vIdx, nextId, error, exportedApp, exportId, isolation, document>>

SeedPermissions ==
  /\ pc = "perms"
  /\ LET w == createAdminGroupPermissions(Work(tx, maps, appParams, nextId, now), importedApp)
     IN /\ tx' = w.tx
        /\ nextId' = w.nextId
  /\ pc' = "commit"
  /\ UNCHANGED <<db, appParams, importedApp, maps, vIdx, error, exportedApp, exportId, isolation, now, document>>

\* dbTransactionWrap: the callback returned, the work becomes visible
Commit ==
  /\ pc = "commit"
  /\ db' = tx
  /\ pc' = "committed"
  /\ UNCHANGED <<tx, appParams, importedApp, maps, vIdx, nextId, error, exportedApp, exportId, isolation, now, document>>

\* dbTransactionWrap: a store operation of the callback failed, the work is discarded
StoreFailure ==
  /\ pc \in TxSteps
  /\ tx' = db
  /\ pc' = "failed"
  /\ error' = "QueryFailedError"
  /\ UNCHANGED <<db, appParams, importedApp, maps, vIdx, nextId, exportedApp, exportId, isolation, now, document>>

\* reload, slug = id, save through the service's own entity manager
AssignSlug ==
  /\ pc = "committed"
  /\ db' = [db EXCEPT !.apps[IndexOf(db.apps, importedApp)].slug = importedApp]
  /\ tx' = db'
  /\ pc' = "done"
  /\ UNCHANGED <<appParams, importedApp, maps, vIdx, nextId, error, exportedApp, exportId, isolation, now, document>>

\* the process stops or the save fails after the commit
SlugFailure ==
  /\ pc = "committed"
  /\ pc' = "slugFailed"
  /\ error' = "QueryFailedError"
  /\ UNCHANGED <<db, tx, appParams, importedApp, maps, vIdx, nextId, exportedApp, exportId, isolation, now, document>>

Next ==
  \/ Export
  \/ Import
  \/ createImportedAppForUser
  \/ BuildVersions
  \/ AssociateNextVersion
  \/ TouchLatestVersion
  \/ SeedPermissions
  \/ Commit
  \/ StoreFailure
  \/ AssignSlug
  \/ SlugFailure

Spec == Init /\ [][Next]_vars

-----------------------------------------------------------------------------
\* Vocabulary of the properties

Range(s) == {s[i] : i \in DOMAIN s}

\* the rows of a table that the import saved
NewRows(table) == {r \in Range(table) : r.id >= FirstNewId}
NewIds(table) == {r.id : r \in NewRows(table)}
Succeeded == pc = "done"

\* every identifier the snapshot document carries
SnapshotIds(d) ==
  {d.appVersions[i].id : i \in DOMAIN d.appVersions}
  \cup {d.appEnvironments[i].id : i \in DOMAIN d.appEnvironments}
  \cup {d.dataSources[i].id : i \in DOMAIN d.dataSources}
  \cup {d.dataQueries[i].id : i \in DOMAIN d.dataQueries}

\* the references of the document resolve inside the document
WellFormed(d) ==
  /\ d.kind = "object"
  /\ \A i \in DOMAIN d.appEnvironments :
       d.appEnvironments[i].versionId \in Ids(d.appVersions)
  /\ \A i \in DOMAIN d.dataSources :
       d.dataSources[i].appVersionId \in Ids(d.appVersions) \cup {Undefined}
  /\ \A i \in DOMAIN d.dataSourceOptions :
       /\ d.dataSourceOptions[i].environmentId \in Ids(d.appEnvironments)
       /\ d.dataSourceOptions[i].dataSource \in Ids(d.dataSources)
  /\ \A i \in DOMAIN d.dataQueries :
       d.dataQueries[i].dataSourceId \in Ids(d.dataSources)

\* C1: after a successful import of a snapshot whose own references resolve,
\* every foreign reference of a row the import created is the identifier of
\* a row the same import created, and none is an identifier of the snapshot.
C1_ReferencesResolveToNewRows ==
  (Succeeded /\ WellFormed(document)) =>
    /\ \A r \in NewRows(db.versions) : r.appId \in NewIds(db.apps)
    /\ \A r \in NewRows(db.envs) : r.appVersionId \in NewIds(db.versions)
    /\ \A r \in NewRows(db.sources) : r.appVersionId \in NewIds(db.versions)
    /\ \A r \in NewRows(db.dsos) :
         /\ r.environmentId \in NewIds(db.envs)
         /\ r.dataSourceId \in NewIds(db.sources)
         /\ r.dataSourceId \notin SnapshotIds(document)
    /\ \A r \in NewRows(db.queries) : r.dataSourceId \in NewIds(db.sources)

\* the numbers of versions, environments, data sources and data queries of
\* an application
CountsOf(store, appId) ==
  LET versions == VersionsOfApp(store, appId)
      sources == DataSourcesOfVersions(store, Ids(versions))
  IN <<Len(versions),
       Len(EnvironmentsOfVersions(store, Ids(versions))),
       Len(sources),
       Len(DataQueriesOfSources(store, Ids(sources)))>>

\* every version of the application has an environment
HasEnvironments(store, appId) ==
  \A v \in Range(VersionsOfApp(store, appId)) :
    \E e \in Range(store.envs) : e.appVersionId = v.id

\* C2: importing the snapshot that export produced from an application (one
\* whose versions all have an environment) creates an application with as
\* many versions, environments, data sources and data queries as the
\* exported one.
C2_RoundTripCounts ==
  (Succeeded /\ exportedApp # Undefined /\ HasEnvironments(db, exportedApp)) =>
    CountsOf(db, importedApp) = CountsOf(db, exportedApp)

\* C3: while the transaction of an import runs, and when it fails at any of
\* its steps, the committed store stays what it was when the import started:
\* no row of the import is persisted.
C3_FailureLeavesStoreUnchanged ==
  [][(pc \in {"idle"} \cup TxSteps /\ pc' \in TxSteps \cup {"failed"}) =>
       /\ db' = db
       /\ pc' = "failed" =>
            \A t \in {"apps", "versions", "envs", "sources", "dsos", "queries", "perms"} :
              NewRows(db'[t]) = {}]_vars

\* an import failed after versions, sources and queries had been built
C3_Witness ==
  /\ pc = "failed"
  /\ error = "QueryFailedError"
  /\ DOMAIN maps.dataQueryMapping # {}
  /\ DOMAIN maps.dataSourceMapping # {}

\* the new rows made from the input entry of a given name
RowsNamed(table, name) == {r \in NewRows(table) : r.name = name}
QueryIdsOf(d) == {d.dataQueries[j].id : j \in DOMAIN d.dataQueries}

\* C4: when a binding of query A carries the old id of query B of the same
\* snapshot, the binding of every new query made from A carries the id of a
\* new query made from B, and no new query's options carry B's old id.
C4_QueryBindingsRemapped ==
  Succeeded =>
    \A a \in DOMAIN document.dataQueries, b \in DOMAIN document.dataQueries :
      \A e \in DOMAIN document.dataQueries[a].options.events :
        (a # b /\ document.dataQueries[a].options.events[e].queryId
                     = document.dataQueries[b].id) =>
          /\ \A r \in RowsNamed(db.queries, document.dataQueries[a].name) :
               r.options.events[e].queryId \in
                 {x.id : x \in RowsNamed(db.queries, document.dataQueries[b].name)}
          /\ \A r \in NewRows(db.queries) : \A k \in DOMAIN r.options.events :
               r.options.events[k].queryId # document.dataQueries[b].id

\* a binding whose id is a key of the mapping carries the mapped id afterwards
Remapped(old, new, m) == old.queryId \in DOMAIN m => new.queryId = m[old.queryId]

\* C5: the step that remaps the definition of a version leaves every binding
\* whose queryId is a key of the query mapping with the mapped id, in the
\* component's events and in the events of every action entry; in the events
\* of a column it does so for a Table component and leaves the column events
\* of any other component unchanged.
C5_DefinitionRemap ==
  [][(pc = "assoc" /\ pc' # "failed") =>
       LET m == maps'.dataQueryMapping
           id == maps.appVersionMapping[appParams.appVersions[vIdx].id]
           old == tx.versions[IndexOf(tx.versions, id)].definition
           new == tx'.versions[IndexOf(tx'.versions, id)].definition
       IN /\ DOMAIN new = DOMAIN old
          /\ \A c \in DOMAIN old :
               /\ \A e \in DOMAIN old[c].events :
                    Remapped(old[c].events[e], new[c].events[e], m)
               /\ \A a \in DOMAIN old[c].actions : \A e \in DOMAIN old[c].actions[a].events :
                    Remapped(old[c].actions[a].events[e], new[c].actions[a].events[e], m)
               /\ \A k \in DOMAIN old[c].columns : \A e \in DOMAIN old[c].columns[k].events :
                    IF old[c].kind = "Table"
                      THEN Remapped(old[c].columns[k].events[e],
                                    new[c].columns[k].events[e], m)
                      ELSE new[c].columns[k].events[e] = old[c].columns[k].events[e]]_vars

\* a Table whose column binding and action binding were rewritten to the id
\* of a new query
C5_Witness ==
  /\ pc = "touch"
  /\ \E v \in NewRows(tx.versions) : \E c \in DOMAIN v.definition :
       /\ v.definition[c].kind = "Table"
       /\ v.definition[c].columns[1].events[1].queryId \in NewIds(tx.queries)
       /\ v.definition[c].actions[1].events[1].queryId \in NewIds(tx.queries)

\* a binding of the document that no query of the document answers
Dangling(q, d) == q # Undefined /\ q \notin QueryIdsOf(d)

\* what the claim C6 and its amendment say of one binding: `kept` chooses
\* between the original id and undefined
UnmappedBindingIs(old, new, kept) ==
  Dangling(old.queryId, document) =>
    new.queryId = (IF kept THEN old.queryId ELSE Undefined)

UnmappedBindings(kept) ==
  /\ \A j \in DOMAIN document.dataQueries :
       \A r \in RowsNamed(db.queries, document.dataQueries[j].name) :
         \A e \in DOMAIN r.options.events :
           UnmappedBindingIs(document.dataQueries[j].options.events[e],
                             r.options.events[e], kept)
  /\ \A i \in DOMAIN document.appVersions :
       \A r \in RowsNamed(db.versions, document.appVersions[i].name) :
         \A c \in DOMAIN r.definition :
           LET old == document.appVersions[i].definition[c]
               new == r.definition[c]
           IN /\ UnmappedBindingIs(old.events[1], new.events[1], kept)
              /\ UnmappedBindingIs(old.actions[1].events[1], new.actions[1].events[1], kept)
              /\ UnmappedBindingIs(old.columns[1].events[1], new.columns[1].events[1],
                                   kept \/ old.kind # "Table")

C7_NonObjectRejected ==
  document.kind # "object" =>
    /\ pc \in {"idle", "rejected", "exportFailed"}
    /\ pc = "rejected" => error = "BadRequestException"
    /\ tx = db
    /\ nextId = FirstNewId

\* the environments of a version
EnvironmentsOf(store, versionId) ==
  {e \in Range(store.envs) : e.appVersionId = versionId}

\* C8: after the import of a snapshot that lists no environment, every new
\* version has exactly one environment, named "production" and default.
C8_LegacyDefaultEnvironment ==
  (Succeeded /\ Len(document.appEnvironments) = 0) =>
    \A v \in NewRows(db.versions) :
      /\ Cardinality(EnvironmentsOf(db, v.id)) = 1
      /\ \A e \in EnvironmentsOf(db, v.id) : e.name = "production" /\ e.isDefault

\* a finished import of a snapshot with no environment and several versions
C8_Witness ==
  /\ Succeeded
  /\ Len(document.appEnvironments) = 0
  /\ Cardinality(NewRows(db.versions)) >= 2
  /\ \A v \in NewRows(db.versions) : EnvironmentsOf(db, v.id) # {}

\* the version an input data source is created for: the one it names
VersionsOfSource(d, source) ==
  {i \in DOMAIN d.appVersions :
     source.appVersionId \in {Undefined, d.appVersions[i].id}}

\* C9: after the import of a legacy snapshot (no environments, no
\* dataSourceOptions), a data source with inline options has exactly one
\* options row, in the default environment synthesized for its version, and
\* the bag of that row is the parsed form of the inline options' triples.
C9_LegacyOptionsRow ==
  (/\ Succeeded
   /\ Len(document.appEnvironments) = 0
   /\ Len(document.dataSourceOptions) = 0) =>
    \A j \in DOMAIN document.dataSources :
      LET source == document.dataSources[j]
      IN source.options.defined =>
           \A r \in RowsNamed(db.sources, source.name) :
             LET rows == {o \in NewRows(db.dsos) : o.dataSourceId = r.id}
             IN /\ Cardinality(rows) = 1
                /\ \A o \in rows :
                     /\ o.environmentId \in {e.id : e \in EnvironmentsOf(db, r.appVersionId)}
                     /\ o.options = parseOptionsForCreate(
                                      convertToArrayOfKeyValuePairs(source.options.props))

C11_EveryVersionHasEnvironment ==
  (Succeeded /\ WellFormed(document)) =>
    \A v \in NewRows(db.versions) : EnvironmentsOf(db, v.id) # {}

\* the grants of an application that the import saved
GrantsOf(store, appId) == {p \in NewRows(store.perms) : p.appId = appId}

\* the admin group-permission records of an organization
AdminGroupIds(store, organizationId) ==
  {gp.id : gp \in {x \in Range(store.groups) :
                     x.organizationId = organizationId /\ x.group = "admin"}}

\* C12: with n admin group-permission records in the importing organization,
\* a successful import creates exactly min(n, 1) grants for the new
\* application; the grant links an admin group of the application's own
\* organization to the application, with read, update and delete all true.
C12_OneAdminGrant ==
  Succeeded =>
    LET app == db.apps[IndexOf(db.apps, importedApp)]
        n == Cardinality(AdminGroupIds(db, user.organizationId))
    IN /\ Cardinality(GrantsOf(db, importedApp)) = (IF n >= 1 THEN 1 ELSE 0)
       /\ \A p \in GrantsOf(db, importedApp) :
            /\ p.groupPermissionId \in AdminGroupIds(db, app.organizationId)
            /\ p.read /\ p.update /\ p.delete

\* a finished import in an organization with several admin groups
C12_Witness ==
  /\ Succeeded
  /\ Cardinality(AdminGroupIds(db, user.organizationId)) >= 2
  /\ Cardinality(GrantsOf(db, importedApp)) = 1

ImportTables == {"apps", "versions", "envs", "sources", "dsos", "queries", "perms"}

\* what a reader of the committed store sees of the import
NothingVisible == \A t \in ImportTables : NewRows(db[t]) = {}

\* the whole of what the transaction wrote, with the given slug
GraphVisible(slug) ==
  /\ NewIds(db.apps) = {importedApp}
  /\ \A a \in NewRows(db.apps) : a.slug = slug
  /\ \A t \in ImportTables \ {"apps"} : db[t] = tx[t]
  /\ \A i \in DOMAIN document.appVersions :
       RowsNamed(db.versions, document.appVersions[i].name) # {}
  /\ AdminGroupIds(db, user.organizationId) # {} => GrantsOf(db, importedApp) # {}

\* C13: a reader outside the transaction sees of an import either no row, or
\* the complete committed graph with slug null, or that graph with slug equal
\* to the application's id.  The committed store changes in two steps only:
\* the commit, from no row to the whole graph, and the slug assignment.  The
\* null slug stays when the import stops between the two, and an import that
\* returned has slug equal to its id.
C13_ObservableStates ==
  /\ [](pc \in {"idle", "rejected", "exportFailed", "failed"} \cup TxSteps => NothingVisible)
  /\ [](pc \in {"committed", "slugFailed"} => GraphVisible(Undefined))
  /\ [](Succeeded => GraphVisible(importedApp))
  /\ [][db' # db =>
          \/ /\ pc = "commit" /\ pc' = "committed"
             /\ NothingVisible
             /\ db' = tx
          \/ /\ pc = "committed" /\ pc' = "done"
             /\ db' = [db EXCEPT !.apps[IndexOf(db.apps, importedApp)].slug = importedApp]]_vars

\* an import that stopped after its commit: the graph with versions and a
\* grant is persisted, the slug is null
C13_Witness ==
  /\ pc = "slugFailed"
  /\ GraphVisible(Undefined)
  /\ Cardinality(NewRows(db.versions)) >= 2
  /\ GrantsOf(db, importedApp) # {}
  /\ NewRows(db.queries) # {}

\* the applications of an organization
AppIdsOf(store, organizationId) ==
  {a.id : a \in {x \in Range(store.apps) : x.organizationId = organizationId}}

\* C14: an export called with an id that is not the id of an application of
\* the requester's organization fails with the not-found error, and with no
\* other, and returns no snapshot.
C14_ExportNotFound ==
  (exportId # Undefined /\ exportId \notin AppIdsOf(db, user.organizationId)) =>
    /\ pc = "exportFailed"
    /\ error = "NotFoundException"
    /\ exportedApp = Undefined

\* the options rows of a set of environments, in creation order
OptionsOfEnvironments(store, environmentIds) ==
  SelectSeq(store.dsos, LAMBDA r : r.environmentId \in environmentIds)

\* the snapshot of an application with the options of its environments
WholeSnapshot(store, appId) ==
  LET versions == VersionsOfApp(store, appId)
      environments == EnvironmentsOfVersions(store, Ids(versions))
  IN ExportSnapshot(store, store.apps[IndexOf(store.apps, appId)],
                    OptionsOfEnvironments(store, Ids(environments)))

\* C16: the export of an application of the requester's organization
\* returns the application record with exactly its versions, the data
\* sources of those versions, the data queries of those sources, the
\* environments of those versions and the options of those environments,
\* each in creation order, also when a list is empty; the export changes no
\* stored row.
C16_ExportReturnsWholeGraph ==
  /\ []((pc \in {"idle", "exportFailed"}
         /\ exportId \in AppIdsOf(db, user.organizationId)) =>
          /\ pc = "idle"
          /\ exportedApp = exportId
          /\ document = WholeSnapshot(db, exportId))
  /\ [][exportId' # exportId => db' = db]_vars

-----------------------------------------------------------------------------
\* export(user, id) read by read, with a writer of the same application

\* The export opens its transaction with no isolation level (dbTransactionWrap
\* is given the callback alone), so what its five statements see is the
\* store's choice: the store as of the start of the transaction, or the
\* committed store as of each statement.
View == IF isolation = "snapshot" THEN tx ELSE db

ReadSteps ==
  {"readVersions", "readDataSources", "readDataQueries", "readEnvironments", "readOptions"}

\* getOne() of the application; the lists are not read yet
BeginExport ==
  /\ pc = "idle" /\ exportId = Undefined
  /\ \E id \in AppIdsOf(db, user.organizationId) :
       /\ exportId' = id
       /\ appParams' = [ExportSnapshot(db, db.apps[IndexOf(db.apps, id)], <<>>)
                          EXCEPT !.appVersions = <<>>, !.dataSources = <<>>,
                                 !.dataQueries = <<>>, !.appEnvironments = <<>>]
  /\ isolation' \in {"snapshot", "statement"}
  /\ tx' = db
  /\ pc' = "readVersions"
  /\ UNCHANGED <<db, importedApp, maps, vIdx, nextId, error, exportedApp, now, document>>

ReadVersions ==
  /\ pc = "readVersions"
  /\ LET appVersions == VersionsOfApp(View, exportId)
     IN appParams' = [appParams EXCEPT !.appVersions =
                        [i \in DOMAIN appVersions |-> VersionEntry(appVersions[i])]]
  /\ pc' = "readDataSources"
  /\ UNCHANGED <<db, tx, importedApp, maps, vIdx, nextId, error, exportedApp, exportId,
                 isolation, now, document>>

ReadDataSources ==
  /\ pc = "readDataSources"
  /\ LET dataSources == DataSourcesOfVersions(View, Ids(appParams.appVersions))
     IN appParams' = [appParams EXCEPT !.dataSources =
                        [i \in DOMAIN dataSources |-> DataSourceEntry(dataSources[i])]]
  /\ pc' = "readDataQueries"
  /\ UNCHANGED <<db, tx, importedApp, maps, vIdx, nextId, error, exportedApp, exportId,
                 isolation, now, document>>

ReadDataQueries ==
  /\ pc = "readDataQueries"
  /\ LET dataQueries == DataQueriesOfSources(View, Ids(appParams.dataSources))
     IN appParams' = [appParams EXCEPT !.dataQueries =
                        [i \in DOMAIN dataQueries |-> DataQueryEntry(dataQueries[i])]]
  /\ pc' = "readEnvironments"
  /\ UNCHANGED <<db, tx, importedApp, maps, vIdx, nextId, error, exportedApp, exportId,
                 isolation, now, document>>

ReadEnvironments ==
  /\ pc = "readEnvironments"
  /\ LET appEnvironments == EnvironmentsOfVersions(View, Ids(appParams.appVersions))
     IN appParams' = [appParams EXCEPT !.appEnvironments =
                        [i \in DOMAIN appEnvironments |-> EnvironmentEntry(appEnvironments[i])]]
  /\ pc' = "readOptions"
  /\ UNCHANGED <<db, tx, importedApp, maps, vIdx, nextId, error, exportedApp, exportId,
                 isolation, now, document>>

\* the statement with the unbound placeholder, and the return
ReadDataSourceOptions ==
  /\ pc = "readOptions"
  /\ \/ /\ pc' = "exported"
        /\ document' = appParams
        /\ exportedApp' = exportId
        /\ error' = error
     \/ /\ pc' = "exportFailed"
        /\ error' = "QueryFailedError"
        /\ UNCHANGED <<document, exportedApp>>
  /\ UNCHANGED <<db, tx, appParams, importedApp, maps, vIdx, nextId, exportId, isolation, now>>

\* rows whose version, data source or environment is gone go with it
Prune(store) ==
  LET envs == SelectSeq(store.envs, LAMBDA r : r.appVersionId \in Ids(store.versions))
      sources == SelectSeq(store.sources, LAMBDA r : r.appVersionId \in Ids(store.versions))
  IN [store EXCEPT
        !.envs = envs,
        !.sources = sources,
        !.queries = SelectSeq(@, LAMBDA r : r.dataSourceId \in Ids(sources)),
        !.dsos = SelectSeq(@, LAMBDA r : /\ r.environmentId \in Ids(envs)
                                         /\ r.dataSourceId \in Ids(sources))]

GraphTables == {"versions", "envs", "sources", "dsos", "queries"}

RemoveRow(store, t, id) ==
  Prune([store EXCEPT ![t] = SelectSeq(@, LAMBDA r : r.id # id)])

\* the rows another request may add to the application: a version, and an
\* environment, a data source, a query or an options row of what is there
AddableRows(store, appId) ==
  LET versionIds == Ids(VersionsOfApp(store, appId))
      sourceIds == Ids(DataSourcesOfVersions(store, versionIds))
      environmentIds == Ids(EnvironmentsOfVersions(store, versionIds))
  IN {<<"versions", [id |-> 57, appId |-> appId, name |-> <<"v", 7>>, updatedAt |-> now,
                     definition |-> <<>>]>>}
     \cup {<<"envs", [id |-> 67, appVersionId |-> v, name |-> "staging",
                      isDefault |-> FALSE]>> : v \in versionIds}
     \cup {<<"sources", [id |-> 74, name |-> <<"ds", 4>>, kind |-> "postgresql",
                         appVersionId |-> v]>> : v \in versionIds}
     \cup {<<"queries", [id |-> 87, name |-> <<"q", 7>>, kind |-> "restapi",
                         dataSourceId |-> s, options |-> [events |-> <<>>]]>> :
             s \in sourceIds}
     \cup {<<"dsos", [id |-> 79, environmentId |-> e, dataSourceId |-> s,
                      options |-> HostBag]>> : e \in environmentIds, s \in sourceIds}

\* Another request commits one change to the application while the export
\* runs: one write is enough to tear an export.
WriterMayAct == pc \in ReadSteps /\ db = tx

WriterAdds ==
  /\ WriterMayAct
  /\ \E a \in AddableRows(db, exportId) :
       /\ a[2].id \notin Ids(db[a[1]])
       /\ db' = [db EXCEPT ![a[1]] = Append(@, a[2])]
  /\ UNCHANGED <<tx, appParams, importedApp, maps, vIdx, nextId, pc, error, exportedApp,
                 exportId, isolation, now, document>>

WriterRemoves ==
  /\ WriterMayAct
  /\ \E t \in GraphTables : \E id \in Ids(db[t]) :
       db' = RemoveRow(db, t, id)
  /\ UNCHANGED <<tx, appParams, importedApp, maps, vIdx, nextId, pc, error, exportedApp,
                 exportId, isolation, now, document>>

InitExport ==
  /\ \E n \in 1..MaxVersions, q \in 0..MaxQueries : db = ExistingStore(n, 1, 1, q, 1)
  /\ tx = db
  /\ appParams = Snapshot(Undefined, <<>>, <<>>, <<>>, <<>>, <<>>)
  /\ importedApp = Undefined
  /\ maps = NoMaps
  /\ vIdx = 0
  /\ nextId = FirstNewId
  /\ pc = "idle"
  /\ error = "none"
  /\ exportedApp = Undefined
  /\ exportId = Undefined
  /\ isolation = "none"
  /\ now = 1
  /\ document = appParams

NextExport ==
  \/ BeginExport
  \/ ReadVersions
  \/ ReadDataSources
  \/ ReadDataQueries
  \/ ReadEnvironments
  \/ ReadDataSourceOptions
  \/ WriterAdds
  \/ WriterRemoves

ExportSpec == InitExport /\ [][NextExport]_vars

\* the application graph of a store as export lists it, options left out
\* (export never returns them)
GraphOf(store, appId) ==
  ExportSnapshot(store, store.apps[IndexOf(store.apps, appId)], <<>>)

\* C15: an export that ran while a writer changed the application returns
\* the application's graph as of one point in time: its lists of versions,
\* data sources, data queries and environments are those of the store as of
\* the start of the export or as of its end.
C15_NoTornExport ==
  pc = "exported" =>
    [document EXCEPT !.dataSourceOptions = <<>>] \in {GraphOf(tx, exportId), GraphOf(db, exportId)}

\* when the reads see the store as of the start of the transaction, the
\* export is the graph as of its start
SnapshotReadsAreWhole ==
  (pc = "exported" /\ isolation = "snapshot") =>
    [document EXCEPT !.dataSourceOptions = <<>>] = GraphOf(tx, exportId)

\* C17: in a finished import, an input data source whose appVersionId is the
\* id of an input version has exactly one new DataSource row; the row is
\* bound to the new version made from that input version, and the source
\* mapping sends the input source's id to the row's id.
C17_VersionAffinity ==
  Succeeded =>
    \A j \in DOMAIN document.dataSources : \A i \in DOMAIN document.appVersions :
      LET source == document.dataSources[j]
          rows == RowsNamed(db.sources, source.name)
      IN source.appVersionId = document.appVersions[i].id =>
           /\ Cardinality(rows) = 1
           /\ \A r \in rows :
                /\ r.appVersionId \in
                     {v.id : v \in RowsNamed(db.versions, document.appVersions[i].name)}
                /\ Lookup(maps.dataSourceMapping, source.id) = r.id

\* a finished import of two versions, each with a data source of its own
C17_Witness ==
  /\ Succeeded
  /\ Len(document.appVersions) >= 2
  /\ \A i \in DOMAIN document.appVersions : \E j \in DOMAIN document.dataSources :
       /\ document.dataSources[j].appVersionId = document.appVersions[i].id
       /\ Cardinality(RowsNamed(db.sources, document.dataSources[j].name)) = 1

\* an inline options object was captured for some source of the document
InlineOptionsCaptured(d) ==
  \E j \in DOMAIN d.dataSources : d.dataSources[j].options.defined

\* C18 (first part): after the import of a snapshot that lists no
\* dataSourceOptions and whose sources carry no inline options, no
\* DataSourceOptions row of the import exists.
NoOptionsRowWithoutInlineOptions ==
  (/\ Succeeded
   /\ Len(document.dataSourceOptions) = 0
   /\ ~InlineOptionsCaptured(document)) => NewRows(db.dsos) = {}

\* C18: options rows are synthesized only when the snapshot lists no
\* dataSourceOptions and inline options were captured for some source; a
\* synthesized row refers to a new data source and to a default environment
\* made for that data source's version; with no inline options and no
\* dataSourceOptions the import creates no DataSourceOptions row.
C18_LegacySynthesisOnlyWhenCaptured ==
  /\ NoOptionsRowWithoutInlineOptions
  /\ (Succeeded /\ Len(document.dataSourceOptions) = 0) =>
       \A o \in NewRows(db.dsos) :
         \E s \in NewRows(db.sources) :
           /\ o.dataSourceId = s.id
           /\ \E e \in EnvironmentsOf(db, s.appVersionId) :
                e.id = o.environmentId /\ e.isDefault /\ e.name = "production"

\* the new versions made from the last entry of the document's version list
LastVersionRows(store) ==
  RowsNamed(store.versions, document.appVersions[Len(document.appVersions)].name)

\* C19: the timestamp of the version made from the last entry of the version
\* list is updated in one step, taken when every version has been created
\* and every iteration of the second loop (which persists the definitions)
\* is over, and before any grant is seeded; a finished import leaves that
\* version with an updatedAt not smaller than that of any other new version.
\* With an empty version list the step updates no version and the import
\* goes on to the seeding.
C19_TouchLatestOrdering ==
  /\ []((Succeeded /\ Len(document.appVersions) >= 1) =>
          \A last \in LastVersionRows(db) : \A v \in NewRows(db.versions) :
            last.updatedAt >= v.updatedAt)
  /\ [][(pc = "touch" /\ pc' # "failed") =>
          /\ pc' = "perms" /\ error' = error
          /\ \A i \in DOMAIN document.appVersions :
               RowsNamed(tx.versions, document.appVersions[i].name) # {}
          /\ vIdx = Len(document.appVersions) + 1
          /\ GrantsOf(tx, importedApp) = {}
          /\ \A k \in DOMAIN tx.versions :
               tx'.versions[k] # tx.versions[k] =>
                 /\ tx.versions[k] \in LastVersionRows(tx)
                 /\ tx'.versions[k] = [tx.versions[k] EXCEPT !.updatedAt = now']
          /\ Len(document.appVersions) = 0 => tx' = tx]_vars
  /\ [][pc # "touch" =>
          \A k \in DOMAIN tx.versions : k \in DOMAIN tx'.versions =>
            tx'.versions[k].updatedAt = tx.versions[k].updatedAt]_vars

\* a finished import of two versions whose last version carries the latest
\* timestamp, later than the first one's
C19_Witness ==
  /\ Succeeded
  /\ Len(document.appVersions) >= 2
  /\ \E last \in LastVersionRows(db) :
       \E v \in RowsNamed(db.versions, document.appVersions[1].name) :
         last.updatedAt > v.updatedAt
  /\ GrantsOf(db, importedApp) # {}

\* the shell application of the running import, as the transaction holds it
ShellApps == {a \in Range(tx.apps) : a.id = importedApp}

\* C20: whatever isPublic flag, organization, owner and slug the snapshot
\* carries, the application the import creates is not public, belongs to the
\* importing user's organization and to the importing user, and has a null
\* slug until the import assigns its id after the commit; its name is the
\* snapshot's.  The attributes are a function of the user and of the name
\* alone, so two snapshots that differ in the other fields give the same.
C20_ShellAccessAttributes ==
  \A a \in ShellApps :
    /\ a.isPublic = FALSE
    /\ a.organizationId = user.organizationId
    /\ a.userId = user.id
    /\ a.name = document.name
    /\ a.slug = (IF Succeeded THEN a.id ELSE Undefined)

\* inside the transaction of an import whose snapshot claims to be public,
\* of another organization and owner, and carries a slug
C20_Witness ==
  /\ pc = "commit"
  /\ ShellApps # {}
  /\ document.isPublic
  /\ document.organizationId # user.organizationId
  /\ document.userId # user.id
  /\ document.slug # Undefined
  /\ document.name = "renamed"

\* the rows of a table that were there before the import, in their order
OldRows(table) == SelectSeq(table, LAMBDA r : r.id < FirstNewId)

StoreTables == ImportTables \cup {"groups"}

\* what a step may change in a row the import inserted earlier
SameButFor(t, old, new) ==
  CASE t = "apps" ->
         [new EXCEPT !.currentVersionId = old.currentVersionId, !.slug = old.slug] = old
    [] t = "versions" ->
         [new EXCEPT !.definition = old.definition, !.updatedAt = old.updatedAt] = old
    [] t = "queries" -> [new EXCEPT !.options = old.options] = old
    [] OTHER -> new = old

\* C21: no step of an import, of one that succeeds or of one that fails,
\* changes or removes a row that was there before it started, in the
\* committed store or in the transaction; the committed store only gains
\* rows; a row the import inserted changes later only in the application's
\* current-version pointer and slug, a query's options, or a version's
\* definition and timestamp.  This holds also for a snapshot exported from
\* the same store.
C21_ImportFrame ==
  [][\A t \in StoreTables :
       /\ OldRows(db'[t]) = OldRows(db[t])
       /\ OldRows(tx'[t]) = OldRows(tx[t])
       /\ NewIds(db[t]) \subseteq NewIds(db'[t])
       /\ \A old \in NewRows(tx[t]) : \A new \in NewRows(tx'[t]) :
            new.id = old.id => SameButFor(t, old, new)]_vars

\* a finished import of a snapshot exported from the same store: its ids
\* are ids of stored rows, and a new options row carries the id of a data
\* source that was there before, which is itself as it was
C21_Witness ==
  /\ Succeeded
  /\ exportedApp # Undefined
  /\ Cardinality(NewRows(db.versions)) >= 2
  /\ NewRows(db.queries) # {}
  /\ \E o \in NewRows(db.dsos) : o.dataSourceId \in Ids(OldRows(db.sources))
  /\ \E v \in NewRows(db.versions) : v.updatedAt > 1
  /\ \A v \in Range(OldRows(db.versions)) : v.updatedAt = 1

====
